---- MODULE Spec2Model ----
(***************************************************************************)
(* Model of the local service orchestrator of src/electron/preload.js      *)
(* (the Electron host process): port probing (checkService), the bounded   *)
(* readiness wait (waitForService), the start attempts (checkOllama,       *)
(* startBackend, startFrontend), the startup sequence (app.whenReady), the *)
(* restart-backend IPC handler, the status check (checkAllServices), the   *)
(* child 'exit' handler, the window events and before-quit.                *)
(*                                                                         *)
(* The host runs one event loop: every action below is one uninterrupted   *)
(* run of host code between two awaits (or one event of the environment).  *)
(***************************************************************************)
EXTENDS Integers, Sequences, FiniteSets, TLC

VARIABLES
    phase,            \* "boot" | "running" | "quitting" | "closed" ("crashed": an
                      \* uncaught exception ended the host)
    isDev,            \* const isDev (line 38)
    mainWindow,       \* mainWindow # null
    backendProcess,   \* let backendProcess: 0 is null, else an index of procs
    frontendProcess,  \* let frontendProcess: 0 is null, else an index of procs
    procs,            \* every child process spawned so far, in spawn order
    extUp,            \* per service: a server not spawned by the host answers on its port
    tasks,            \* the async functions in flight: 0 is app.whenReady, 1.. are restart-backend calls
    ollamaReady,      \* const ollamaReady of app.whenReady: "none" | "true" | "false"
    notifications,    \* number of dialog.showErrorBox calls so far
    wait,             \* the stand-alone run of waitForService/checkService (SpecWait)
    status,           \* the checkAllServices call in flight or last finished
    log,              \* the kinds of message written by log() so far
    appLog,           \* the text log() has appended to app.log for child output (SpecLog)
    ui                \* the state of the React components App, ChatPanel, DocumentPanel (SpecUi)

vars == <<phase, isDev, mainWindow, backendProcess, frontendProcess, procs, extUp,
          tasks, ollamaReady, notifications, wait, appLog, ui, status, log>>

mainVars == <<phase, isDev, mainWindow, backendProcess, frontendProcess, procs, extUp,
              tasks, ollamaReady, notifications, status, log>>

----------------------------------------------------------------------------
(* Bounds of the model *)

\* number of restart-backend requests the UI sends
MaxRestarts == 1
\* maxAttempts of the readiness wait inside the start attempts: the source's
\* default of 30 (line 82) scaled down; the loop is the same for every value,
\* and SpecWait runs it for every maxAttempts up to MaxAttemptsArg
WaitAttempts == 1
\* largest maxAttempts tried on the stand-alone waitForService
MaxAttemptsArg == 3

OLLAMA == "ollama"
BACKEND == "backend"
FRONTEND == "frontend"
Services == {OLLAMA, BACKEND, FRONTEND}

STARTUP == 0
RestartIds == 1..MaxRestarts
TaskIds == {STARTUP} \cup RestartIds

\* what the UI may pass to window.electronAPI.restartBackend(...)
BridgeArgs == {"none", "backend", "runtime", "unknown"}

----------------------------------------------------------------------------
(* checkService: the events Node emits for one http.request, and the value *)
(* the promise takes.                                                      *)

\* new Promise(resolve): only the first resolve call settles the promise
Resolve(value, v) == IF value = "pending" THEN v ELSE value

\* faulty variant: the 'error' listener forgets to resolve
CheckServiceOn_errorUnresolved(value, ev) ==
    CASE ev = "response" -> Resolve(value, "true")
      [] ev = "error"    -> value
      [] ev = "timeout"  -> Resolve(value, "false")

\* the three listeners of checkService applied to one event
CheckServiceOn(value, ev) ==
    CASE ev = "response" -> Resolve(value, "true")
      [] ev = "error"    -> Resolve(value, "false")
      [] ev = "timeout"  -> Resolve(value, "false")   \* req.destroy(); resolve(false)

RECURSIVE CheckServiceFold(_, _)
CheckServiceFold(value, events) ==
    IF events = <<>> THEN value
    ELSE CheckServiceFold(CheckServiceOn(value, Head(events)), Tail(events))

\* checkService(port) on the events of its request
checkService(events) == CheckServiceFold("pending", events)

\* The event sequences a request can produce. connected: the TCP connection
\* was established. req.destroy() in the 'timeout' listener makes the request
\* emit 'error' (socket hang up) when no response had arrived.
ScriptsUp ==
    { [connected |-> TRUE,  events |-> <<"response">>],
      [connected |-> TRUE,  events |-> <<"response", "timeout">>],
      [connected |-> TRUE,  events |-> <<"timeout", "error">>],
      [connected |-> TRUE,  events |-> <<"error">>] }
ScriptsDown ==
    { [connected |-> FALSE, events |-> <<"error">>],
      [connected |-> FALSE, events |-> <<"timeout", "error">>] }

----------------------------------------------------------------------------
(* Child processes *)

\* life of a child: "alive", "signalled" (alive, SIGTERM sent to it), "dead"
\* (exited, its 'exit' event not yet delivered), "reaped" ('exit' delivered)
Alive == {"alive", "signalled"}

ProcIds == 1..Len(procs)

AliveOf(svc) == {p \in ProcIds : procs[p].svc = svc /\ procs[p].st \in Alive}

\* the requests a probe of the port of svc can see now: a server the host did
\* not spawn answers or is overloaded; a live child answers, is overloaded or
\* has not bound the port (yet); with neither, nothing listens
ProbeScripts(svc) ==
    IF extUp[svc] THEN ScriptsUp
    ELSE IF AliveOf(svc) # {} THEN ScriptsUp \cup ScriptsDown
    ELSE ScriptsDown

\* outcome of one checkService(port of svc) completing now
ProbeResults(svc) == { checkService(s.events) : s \in ProbeScripts(svc) }

\* spawn starts the executable (TRUE) or cannot run it (FALSE)
SpawnOutcomes == BOOLEAN

\* child_process.spawn: st is "failed" when the executable cannot be run
\* (the child emits 'error' and never 'exit')
NewProc(svc, by, ok) ==
    [svc |-> svc, st |-> IF ok THEN "alive" ELSE "failed", by |-> by]

\* faulty variant: kill signals every child of the host
Kill_all(ps, id) == [p \in DOMAIN ps |->
    IF ps[p].st \in Alive THEN [ps[p] EXCEPT !.st = "signalled"] ELSE ps[p]]

\* faulty variant: kill signals the pid whether or not the child still runs
Kill_blind(ps, id) ==
    IF id # 0 THEN [ps EXCEPT ![id].st = "signalled"] ELSE ps

\* ChildProcess.kill(): SIGTERM to a running child, nothing otherwise
Kill(ps, id) ==
    IF id # 0 /\ ps[id].st \in Alive
    THEN [ps EXCEPT ![id].st = "signalled"]
    ELSE ps

----------------------------------------------------------------------------
(* waitForService(port, maxAttempts): the loop as a state machine. at is   *)
(* the await the loop is suspended on, i the loop variable, ret the value  *)
(* returned.                                                               *)

\* faulty variant: the loop test is i <= maxAttempts
waitForServiceSlept_offByOne(l, maxAttempts) ==
    IF l.i + 1 <= maxAttempts
    THEN [i |-> l.i + 1, at |-> "probe", ret |-> "none"]
    ELSE [i |-> l.i + 1, at |-> "done", ret |-> "false"]

\* faulty variant: the loop variable is not advanced
waitForServiceSlept_noIncrement(l, maxAttempts) ==
    IF l.i < maxAttempts
    THEN [i |-> l.i, at |-> "probe", ret |-> "none"]
    ELSE [i |-> l.i, at |-> "done", ret |-> "false"]

\* faulty variant: the wait returns true without probing
waitForServiceEnter_optimistic(maxAttempts) == [i |-> 0, at |-> "done", ret |-> "true"]

\* entering the for loop: i = 0, test i < maxAttempts, first checkService issued
waitForServiceEnter(maxAttempts) ==
    IF 0 < maxAttempts
    THEN [i |-> 0, at |-> "probe", ret |-> "none"]
    ELSE [i |-> 0, at |-> "done", ret |-> "false"]

\* await checkService(port) returned r
waitForServiceProbed(l, r) ==
    IF r = "true"
    THEN [l EXCEPT !.at = "done", !.ret = "true"]
    ELSE [l EXCEPT !.at = "sleep"]

\* the 1000 ms timer fired: i++, test i < maxAttempts
waitForServiceSlept(l, maxAttempts) ==
    IF l.i + 1 < maxAttempts
    THEN [i |-> l.i + 1, at |-> "probe", ret |-> "none"]
    ELSE [i |-> l.i + 1, at |-> "done", ret |-> "false"]

NoLoop == [i |-> 0, at |-> "done", ret |-> "none"]

----------------------------------------------------------------------------
(* The host *)

IdleTask == [pc |-> "idle", loop |-> NoLoop, spawned |-> 0, killed |-> 0,
             result |-> "none"]

\* wait while the host model runs: no stand-alone call
IdleWait == [pc |-> "off", max |-> 0, oracle |-> <<>>, loop |-> NoLoop, requests |-> 0,
             outcomes |-> <<>>, pos |-> 0, value |-> "pending"]

\* app.log while the host model runs: the text of child output is not played
NoAppLog == [file |-> <<>>, chunks |-> 0]

\* the UI while the host model runs: not mounted
NoUi == [mounted |-> FALSE]

\* status before any checkAllServices call
NoProbes == [svc \in Services |-> "none"]
NoReply == [ollama |-> "none", backend |-> "none"]
NoPush == [ollama |-> "none", backend |-> "none", frontend |-> "none"]
\* probed, reply and pushed belong to the latest call; sent: a 'services-status'
\* message has been sent to the window by some call
IdleStatus == [pc |-> "idle", probed |-> NoProbes, reply |-> NoReply, pushed |-> NoPush,
               sent |-> FALSE]

Init ==
    /\ phase = "boot"
    /\ isDev \in BOOLEAN
    /\ mainWindow = FALSE
    /\ backendProcess = 0
    /\ frontendProcess = 0
    /\ procs = <<>>
    /\ extUp \in [Services -> BOOLEAN]
    /\ extUp[FRONTEND] => isDev
    /\ tasks = [t \in TaskIds |-> IdleTask]
    /\ ollamaReady = "none"
    /\ notifications = 0
    /\ wait = IdleWait
    /\ status = IdleStatus
    /\ log = {}
    /\ appLog = NoAppLog
    /\ ui = NoUi

\* the event loop still serves timers, sockets and child events
HostRuns == phase = "running"

\* faulty variant: no process.on('uncaughtException') listener is registered
UncaughtException_unhandled(ph) == "crashed"

\* process.on('uncaughtException'): the error is logged, the host keeps running
UncaughtException(ph) == ph

\* faulty variant: the 'error' listener of the backend child writes nothing
SpawnErrorLog_silent(svc, ok) ==
    IF ok \/ svc = BACKEND THEN {} ELSE {"Uncaught exception"}

\* the 'error' event of a child that could not be spawned, emitted right after
\* the run that spawned it: the backend child has a listener that logs it; the
\* runtime and the asset-server child have none, so the event is thrown as an
\* uncaught exception
SpawnErrorLog(svc, ok) ==
    IF ok THEN {}
    ELSE IF svc = BACKEND THEN {"Backend process error"} ELSE {"Uncaught exception"}

\* the phase of the host after spawning a child of svc
AfterSpawn(svc, ok) ==
    IF ok \/ svc = BACKEND THEN phase ELSE UncaughtException(phase)

\* log('App ready') in the step that ends app.whenReady
AppReadyLog ==
    IF tasks[STARTUP].pc # "ready" /\ tasks'[STARTUP].pc = "ready"
    THEN {"App ready"} ELSE {}

\* app.whenReady().then: createWindow, then checkOllama issues its first probe
AppReady ==
    /\ phase = "boot"
    /\ phase' = "running"
    /\ mainWindow' = TRUE
    /\ tasks' = [tasks EXCEPT ![STARTUP].pc = "ollama_probe"]
    /\ log' = log \cup {"App starting..."}
    /\ UNCHANGED <<isDev, backendProcess, frontendProcess, procs, extUp, ollamaReady,
                   notifications, wait, appLog, ui, status>>

\* faulty variant: the backend is started only when the runtime is there
AfterCheckOllama_skipBackend(r) ==
    /\ ollamaReady' = r
    /\ notifications' = IF r = "false" THEN notifications + 1 ELSE notifications
    /\ tasks' = [tasks EXCEPT ![STARTUP].pc = IF r = "true" THEN "sb_probe" ELSE "ready"]

\* faulty variant: a failed checkOllama is tried again
AfterCheckOllama_retry(r) ==
    /\ ollamaReady' = r
    /\ notifications' = notifications
    /\ tasks' = [tasks EXCEPT ![STARTUP].pc = IF r = "true" THEN "sb_probe"
                                                           ELSE "ollama_probe"]

\* app.whenReady after `await checkOllama()` gave r: the error box, then
\* startBackend issues its first probe
AfterCheckOllama(r) ==
    /\ ollamaReady' = r
    /\ notifications' = IF r = "false" THEN notifications + 1 ELSE notifications
    /\ tasks' = [tasks EXCEPT ![STARTUP].pc = "sb_probe"]

\* checkOllama: the first checkService(OLLAMA_PORT) completes with r
CheckOllamaProbeGave(r) ==
    /\ HostRuns
    /\ tasks[STARTUP].pc = "ollama_probe"
    /\   IF r = "true"
         THEN /\ AfterCheckOllama("true")
              /\ log' = log \cup {"Ollama is already running"} \cup AppReadyLog
              /\ UNCHANGED <<procs, phase>>
         ELSE /\ \E ok \in SpawnOutcomes :
                   /\ procs' = Append(procs, NewProc(OLLAMA, STARTUP, ok))
                   /\ phase' = AfterSpawn(OLLAMA, ok)
                   /\ log' = log \cup {"Attempting to start Ollama..."}
                                 \cup SpawnErrorLog(OLLAMA, ok)
              /\ tasks' = [tasks EXCEPT ![STARTUP].pc = "ollama_timer"]
              /\ UNCHANGED <<ollamaReady, notifications>>
    /\ UNCHANGED <<isDev, mainWindow, backendProcess, frontendProcess, extUp, wait, appLog, ui, status>>

CheckOllamaProbe == \E r \in ProbeResults(OLLAMA) : CheckOllamaProbeGave(r)

\* checkOllama: the 3000 ms timer fires and issues the second probe
CheckOllamaTimer ==
    /\ HostRuns
    /\ tasks[STARTUP].pc = "ollama_timer"
    /\ tasks' = [tasks EXCEPT ![STARTUP].pc = "ollama_probe2"]
    /\ UNCHANGED <<phase, isDev, mainWindow, backendProcess, frontendProcess, procs, extUp,
                   ollamaReady, notifications, wait, appLog, ui, status, log>>

\* checkOllama: the second probe completes with r and resolves the promise
CheckOllamaStartedGave(r) ==
    /\ HostRuns
    /\ tasks[STARTUP].pc = "ollama_probe2"
    /\   /\ AfterCheckOllama(r)
         /\ log' = log \cup {IF r = "true" THEN "Ollama started successfully"
                                           ELSE "Failed to start Ollama"}
                       \cup AppReadyLog
    /\ UNCHANGED <<phase, isDev, mainWindow, backendProcess, frontendProcess, procs, extUp,
                   wait, appLog, ui, status>>

CheckOllamaStarted == \E r \in ProbeResults(OLLAMA) : CheckOllamaStartedGave(r)

\* startFrontend returned (or was not called): createTray, 'App ready'
AppReadyDone(ts) == [ts EXCEPT ![STARTUP].pc = "ready"]

\* the caller of startBackend resumes with its value r
\* app.whenReady: error box when false, then startFrontend in development;
\* restart-backend: the value is the reply
AfterStartBackend(t, r, ts) ==
    IF t = STARTUP
    THEN /\ notifications' = IF r = "false" THEN notifications + 1 ELSE notifications
         /\ tasks' = IF isDev
                     THEN [ts EXCEPT ![t].pc = "sf_probe", ![t].result = r]
                     ELSE AppReadyDone([ts EXCEPT ![t].result = r])
    ELSE /\ tasks' = [ts EXCEPT ![t].pc = "done", ![t].result = r]
         /\ UNCHANGED notifications

\* a waitForService loop of task t moved to l: suspend again or return
AfterWaitForService(t, l) ==
    LET ts == [tasks EXCEPT ![t].loop = l] IN
    IF l.at # "done"
    THEN /\ tasks' = ts
         /\ UNCHANGED notifications
    ELSE IF tasks[t].pc = "sb_wait"
         THEN AfterStartBackend(t, l.ret, ts)
         ELSE /\ tasks' = AppReadyDone(ts)
              /\ UNCHANGED notifications

\* faulty variant: startBackend spawns without looking at the probe
StartBackendSpawns_always(r) == TRUE

\* startBackend: spawn unless the first probe answered
StartBackendSpawns(r) == r # "true"

\* startBackend: the first checkService(BACKEND_PORT) completes with r; on
\* false the child is spawned, stored in backendProcess, and waitForService
\* is entered
StartBackendProbeGave(t, r) ==
    /\ HostRuns
    /\ tasks[t].pc = "sb_probe"
    /\   IF ~StartBackendSpawns(r)
         THEN /\ AfterStartBackend(t, "true", tasks)
              /\ log' = log \cup {"Backend already running"} \cup AppReadyLog
              /\ UNCHANGED <<procs, backendProcess, phase>>
         ELSE /\ backendProcess' = Len(procs) + 1
              /\ LET ts == [tasks EXCEPT ![t].pc = "sb_wait",
                                         ![t].spawned = Len(procs) + 1] IN
                 LET l == waitForServiceEnter(WaitAttempts) IN
                 IF l.at # "done"
                 THEN /\ tasks' = [ts EXCEPT ![t].loop = l]
                      /\ UNCHANGED notifications
                 ELSE AfterStartBackend(t, l.ret, [ts EXCEPT ![t].loop = l])
              /\ \E ok \in SpawnOutcomes :
                   /\ procs' = Append(procs, NewProc(BACKEND, t, ok))
                   /\ phase' = AfterSpawn(BACKEND, ok)
                   /\ log' = log \cup {"Starting backend..."}
                                 \cup SpawnErrorLog(BACKEND, ok) \cup AppReadyLog
    /\ UNCHANGED <<isDev, mainWindow, frontendProcess, extUp, ollamaReady, wait, appLog, ui, status>>

StartBackendProbe(t) == \E r \in ProbeResults(BACKEND) : StartBackendProbeGave(t, r)

\* startFrontend (isDev): the first checkService(FRONTEND_PORT) completes with r
StartFrontendProbeGave(r) ==
    /\ HostRuns
    /\ tasks[STARTUP].pc = "sf_probe"
    /\   IF r = "true"
         THEN /\ tasks' = AppReadyDone(tasks)
              /\ log' = log \cup {"Frontend dev server already running"} \cup AppReadyLog
              /\ UNCHANGED <<procs, frontendProcess, phase>>
         ELSE /\ frontendProcess' = Len(procs) + 1
              /\ LET l == waitForServiceEnter(WaitAttempts) IN
                 tasks' = IF l.at # "done"
                          THEN [tasks EXCEPT ![STARTUP].pc = "sf_wait", ![STARTUP].loop = l]
                          ELSE AppReadyDone([tasks EXCEPT ![STARTUP].loop = l])
              /\ \E ok \in SpawnOutcomes :
                   /\ procs' = Append(procs, NewProc(FRONTEND, STARTUP, ok))
                   /\ phase' = AfterSpawn(FRONTEND, ok)
                   /\ log' = log \cup {"Starting frontend dev server..."}
                                 \cup SpawnErrorLog(FRONTEND, ok) \cup AppReadyLog
    /\ UNCHANGED <<isDev, mainWindow, backendProcess, extUp, ollamaReady,
                   notifications, wait, appLog, ui, status>>

StartFrontendProbe == \E r \in ProbeResults(FRONTEND) : StartFrontendProbeGave(r)

WaitSvc(t) == IF tasks[t].pc = "sb_wait" THEN BACKEND ELSE FRONTEND

\* waitForService inside a start attempt: its checkService completes with r
WaitForServiceProbeGave(t, r) ==
    /\ HostRuns
    /\ tasks[t].pc \in {"sb_wait", "sf_wait"}
    /\ tasks[t].loop.at = "probe"
    /\ AfterWaitForService(t, waitForServiceProbed(tasks[t].loop, r))
    /\ log' = log \cup AppReadyLog
    /\ UNCHANGED <<phase, isDev, mainWindow, backendProcess, frontendProcess, procs, extUp,
                   ollamaReady, wait, appLog, ui, status>>

WaitForServiceProbe(t) ==
    /\ tasks[t].pc \in {"sb_wait", "sf_wait"}
    /\ \E r \in ProbeResults(WaitSvc(t)) : WaitForServiceProbeGave(t, r)

\* waitForService inside a start attempt: its 1000 ms timer fires
WaitForServiceSleep(t) ==
    /\ HostRuns
    /\ tasks[t].pc \in {"sb_wait", "sf_wait"}
    /\ tasks[t].loop.at = "sleep"
    /\ AfterWaitForService(t, waitForServiceSlept(tasks[t].loop, WaitAttempts))
    /\ log' = log \cup AppReadyLog
    /\ UNCHANGED <<phase, isDev, mainWindow, backendProcess, frontendProcess, procs, extUp,
                   ollamaReady, wait, appLog, ui, status>>

\* faulty variant: the preload forwards what the UI passes to the host
restartBackend_forwarding(arg) == [channel |-> "restart-backend", args |-> <<arg>>]

\* preload: restartBackend: () => ipcRenderer.invoke('restart-backend');
\* whatever the UI passes is dropped
restartBackend(arg) == [channel |-> "restart-backend", args |-> <<>>]

\* faulty variant: the handler restarts the service the UI names, the runtime included
RestartSpawnsRuntime_named(aimed) == aimed = "runtime"

\* the restart-backend handler takes no argument: it never starts the runtime
RestartSpawnsRuntime(aimed) == FALSE

\* ipcMain.handle('restart-backend'): kill and forget the stored child, then
\* startBackend issues its first probe
IpcRestartBackend(t, arg) ==
    /\ phase = "running"
    /\ mainWindow
    /\ t \in RestartIds
    /\ tasks[t].pc = "idle"
    /\ t > 1 => tasks[t - 1].pc # "idle"
    /\ restartBackend(arg).channel = "restart-backend"
    /\ procs' = LET killed == IF backendProcess # 0 THEN Kill(procs, backendProcess) ELSE procs IN
                IF RestartSpawnsRuntime(arg)
                THEN Append(killed, NewProc(OLLAMA, t, TRUE))
                ELSE killed
    /\ backendProcess' = 0
    /\ tasks' = [tasks EXCEPT ![t].pc = "sb_probe", ![t].killed = backendProcess]
    /\ UNCHANGED <<phase, isDev, mainWindow, frontendProcess, extUp, ollamaReady,
                   notifications, wait, appLog, ui, status, log>>

\* backendProcess.on('exit'): backendProcess = null, whichever child exited
BackendOnExit(handle, p) == 0

\* the 'exit' event of a backend child reaches the host
BackendExitEvent(p) ==
    /\ phase \in {"running", "quitting"}
    /\ p \in ProcIds
    /\ procs[p].svc = BACKEND
    /\ procs[p].st = "dead"
    /\ procs' = [procs EXCEPT ![p].st = "reaped"]
    /\ backendProcess' = BackendOnExit(backendProcess, p)
    /\ log' = log \cup {"Backend exited with code"}
    /\ UNCHANGED <<phase, isDev, mainWindow, frontendProcess, extUp, tasks, ollamaReady,
                   notifications, wait, appLog, ui, status>>

\* the children before-quit signals
BeforeQuitKills(ps) == Kill(Kill(ps, backendProcess), frontendProcess)

\* app.on('before-quit'): kill and forget both stored children; nothing is awaited
BeforeQuit ==
    /\ phase = "running"
    /\ phase' = "quitting"
    /\ procs' = BeforeQuitKills(procs)
    /\ backendProcess' = 0
    /\ frontendProcess' = 0
    /\ log' = log \cup {"App quitting..."}
    /\ UNCHANGED <<isDev, mainWindow, extUp, tasks, ollamaReady, notifications, wait, appLog, ui, status>>

\* the host process ends: no listener defers the quit
HostExit ==
    /\ phase = "quitting"
    /\ phase' = "closed"
    /\ UNCHANGED <<isDev, mainWindow, backendProcess, frontendProcess, procs, extUp, tasks,
                   ollamaReady, notifications, wait, appLog, ui, status, log>>

----------------------------------------------------------------------------
(* checkAllServices: the status check behind get-services-status and the   *)
(* tray item 'Check Services'                                               *)

\* preload: getServicesStatus: () => ipcRenderer.invoke('get-services-status')
getServicesStatus(arg) == [channel |-> "get-services-status", args |-> <<>>]

\* preload: openFileDialog: () => ipcRenderer.invoke('open-file-dialog')
openFileDialog(arg) == [channel |-> "open-file-dialog", args |-> <<>>]

\* preload: getUserDataPath: () => ipcRenderer.invoke('get-user-data-path')
getUserDataPath(arg) == [channel |-> "get-user-data-path", args |-> <<>>]

\* the invocations window.electronAPI can make when the UI passes arg
ElectronAPI(arg) ==
    {getServicesStatus(arg), restartBackend(arg), openFileDialog(arg), getUserDataPath(arg)}

\* the channels the host handles (ipcMain.handle)
IpcHandlers ==
    {"get-services-status", "restart-backend", "open-file-dialog", "get-user-data-path"}

\* the message sent on 'services-status'
ServicesStatus(ollama, backend) ==
    [ollama |-> ollama, backend |-> backend, frontend |-> "true"]

\* the value checkAllServices returns: the reply of get-services-status
ServicesReply(ollama, backend) == [ollama |-> ollama, backend |-> backend]

\* checkAllServices is called and issues checkService(OLLAMA_PORT)
checkAllServices ==
    /\ HostRuns
    /\ status.pc = "idle"
    /\ status' = [IdleStatus EXCEPT !.pc = "ollama", !.sent = status.sent]
    /\ UNCHANGED <<phase, isDev, mainWindow, backendProcess, frontendProcess, procs, extUp,
                   tasks, ollamaReady, notifications, wait, appLog, ui, log>>

\* ipcMain.handle('get-services-status', checkAllServices): a request of the UI
IpcGetServicesStatus(arg) ==
    /\ mainWindow
    /\ getServicesStatus(arg).channel = "get-services-status"
    /\ checkAllServices

\* the tray item 'Check Services'; the tray exists once app.whenReady has
\* called createTray
TrayCheckServices ==
    /\ tasks[STARTUP].pc = "ready"
    /\ checkAllServices

\* checkAllServices: checkService(OLLAMA_PORT) completes, checkService(BACKEND_PORT) is issued
CheckAllOllamaProbed ==
    /\ HostRuns
    /\ status.pc = "ollama"
    /\ \E r \in ProbeResults(OLLAMA) :
         status' = [status EXCEPT !.pc = "backend", !.probed[OLLAMA] = r]
    /\ UNCHANGED <<phase, isDev, mainWindow, backendProcess, frontendProcess, procs, extUp,
                   tasks, ollamaReady, notifications, wait, appLog, ui, log>>

\* checkAllServices: checkService(BACKEND_PORT) completes; the message is sent
\* if the window exists, and the call returns
CheckAllBackendProbed ==
    /\ HostRuns
    /\ status.pc = "backend"
    /\ \E r \in ProbeResults(BACKEND) :
         LET ollama == status.probed[OLLAMA] IN
         status' = [status EXCEPT !.pc = "idle",
                                  !.probed[BACKEND] = r,
                                  !.pushed = IF mainWindow THEN ServicesStatus(ollama, r)
                                                           ELSE NoPush,
                                  !.sent = status.sent \/ mainWindow,
                                  !.reply = ServicesReply(ollama, r)]
    /\ UNCHANGED <<phase, isDev, mainWindow, backendProcess, frontendProcess, procs, extUp,
                   tasks, ollamaReady, notifications, wait, appLog, ui, log>>

\* mainWindow.on('closed'): mainWindow = null (window-all-closed then quits
\* the application unless the platform is darwin: BeforeQuit)
WindowClosed ==
    /\ HostRuns
    /\ mainWindow
    /\ mainWindow' = FALSE
    /\ UNCHANGED <<phase, isDev, backendProcess, frontendProcess, procs, extUp,
                   tasks, ollamaReady, notifications, wait, appLog, ui, status, log>>

\* app.on('activate'): createWindow if there is no window
Activate ==
    /\ HostRuns
    /\ ~mainWindow
    /\ mainWindow' = TRUE
    /\ UNCHANGED <<phase, isDev, backendProcess, frontendProcess, procs, extUp,
                   tasks, ollamaReady, notifications, wait, appLog, ui, status, log>>

----------------------------------------------------------------------------
(* The environment *)

\* a child process ends (on its own, or on the signal it was sent); the
\* 'exit' event of a backend child is then pending ("dead") until the host
\* runs its listener ("reaped")
ChildExits(p) ==
    /\ phase # "closed"
    /\ p \in ProcIds
    /\ procs[p].st \in Alive
    /\ procs' = [procs EXCEPT ![p].st = "dead"]
    /\ UNCHANGED <<phase, isDev, mainWindow, backendProcess, frontendProcess, extUp, tasks,
                   ollamaReady, notifications, wait, appLog, ui, status, log>>

Next ==
    \/ AppReady
    \/ CheckOllamaProbe
    \/ CheckOllamaTimer
    \/ CheckOllamaStarted
    \/ \E t \in TaskIds : StartBackendProbe(t)
    \/ StartFrontendProbe
    \/ \E t \in TaskIds : WaitForServiceProbe(t)
    \/ \E t \in TaskIds : WaitForServiceSleep(t)
    \/ \E t \in RestartIds, arg \in BridgeArgs : IpcRestartBackend(t, arg)
    \/ \E p \in ProcIds : BackendExitEvent(p)
    \/ BeforeQuit
    \/ HostExit
    \/ \E p \in ProcIds : ChildExits(p)

Spec == Init /\ [][Next]_vars

\* the steps the event loop owes to the start attempt of task t: a probe in
\* flight completes (checkService settles on response, error or its 2000 ms
\* timeout) and a timer that was set fires
TaskStep(t) ==
    \/ StartBackendProbe(t)
    \/ WaitForServiceProbe(t)
    \/ WaitForServiceSleep(t)
    \/ /\ t = STARTUP
       /\ (AppReady \/ CheckOllamaProbe \/ CheckOllamaTimer \/ CheckOllamaStarted
              \/ StartFrontendProbe)

\* the host with status checks and the window closing, and no restart request
NextStatus ==
    \/ AppReady
    \/ CheckOllamaProbe
    \/ CheckOllamaTimer
    \/ CheckOllamaStarted
    \/ StartBackendProbe(STARTUP)
    \/ StartFrontendProbe
    \/ WaitForServiceProbe(STARTUP)
    \/ WaitForServiceSleep(STARTUP)
    \/ \E arg \in BridgeArgs : IpcGetServicesStatus(arg)
    \/ TrayCheckServices
    \/ CheckAllOllamaProbed
    \/ CheckAllBackendProbed
    \/ WindowClosed
    \/ Activate
    \/ \E p \in ProcIds : BackendExitEvent(p)
    \/ BeforeQuit
    \/ HostExit
    \/ \E p \in ProcIds : ChildExits(p)

SpecStatus == Init /\ [][NextStatus]_vars

\* SpecStatus with the event loop serving the startup sequence
SpecStatusFair == SpecStatus /\ WF_vars(TaskStep(STARTUP))

----------------------------------------------------------------------------
(* waitForService(port, maxAttempts) on its own, with checkService played   *)
(* event by event. oracle[k] is what the network does to the k-th request.  *)

Scripts == ScriptsUp \cup ScriptsDown

InitWait ==
    /\ phase = "boot"
    /\ isDev = FALSE
    /\ mainWindow = FALSE
    /\ backendProcess = 0
    /\ frontendProcess = 0
    /\ procs = <<>>
    /\ extUp = [svc \in Services |-> FALSE]
    /\ tasks = [t \in TaskIds |-> IdleTask]
    /\ ollamaReady = "none"
    /\ notifications = 0
    /\ status = IdleStatus
    /\ log = {}
    /\ appLog = NoAppLog
    /\ ui = NoUi
    /\ \E m \in 0..MaxAttemptsArg, o \in [1..MaxAttemptsArg -> Scripts] :
         wait = [IdleWait EXCEPT !.pc = "call", !.max = m, !.oracle = o]

\* the loop of the stand-alone call moved to l: the next checkService is
\* issued (at "probe"), the timer is set (at "sleep"), or the call returns
WaitMoved(l) ==
    CASE l.at = "probe" -> [wait EXCEPT !.loop = l, !.pc = "probe",
                                        !.requests = wait.requests + 1,
                                        !.pos = 0, !.value = "pending"]
      [] l.at = "sleep" -> [wait EXCEPT !.loop = l, !.pc = "sleep"]
      [] l.at = "done"  -> [wait EXCEPT !.loop = l, !.pc = "returned"]

\* waitForService is called
WaitCall ==
    /\ wait.pc = "call"
    /\ wait' = WaitMoved(waitForServiceEnter(wait.max))
    /\ UNCHANGED <<mainVars, appLog, ui>>

\* the request in flight emits its next event; the listener of checkService runs
WaitProbeEvent ==
    /\ wait.pc = "probe"
    /\ wait.pos < Len(wait.oracle[wait.requests].events)
    /\ wait' = [wait EXCEPT
                  !.pos = wait.pos + 1,
                  !.value = CheckServiceOn(wait.value,
                                wait.oracle[wait.requests].events[wait.pos + 1])]
    /\ UNCHANGED <<mainVars, appLog, ui>>

\* `await checkService(port)` resumes with the settled value
WaitProbeSettled ==
    /\ wait.pc = "probe"
    /\ wait.pos = Len(wait.oracle[wait.requests].events)
    /\ wait.value # "pending"
    /\ wait' = [WaitMoved(waitForServiceProbed(wait.loop, wait.value))
                  EXCEPT !.outcomes = Append(wait.outcomes, wait.value)]
    /\ UNCHANGED <<mainVars, appLog, ui>>

\* the 1000 ms timer of the loop fires
WaitTimer ==
    /\ wait.pc = "sleep"
    /\ wait' = WaitMoved(waitForServiceSlept(wait.loop, wait.max))
    /\ UNCHANGED <<mainVars, appLog, ui>>

NextWait ==
    \/ WaitCall
    \/ WaitProbeEvent
    \/ WaitProbeSettled
    \/ WaitTimer

SpecWait == InitWait /\ [][NextWait]_vars

----------------------------------------------------------------------------
(* The 'data' listeners of the children and log(): the text appended to     *)
(* app.log. A text is a sequence of characters; "a" stands for any          *)
(* character that is not white space, TIMESTAMP for the bracketed ISO       *)
(* timestamp, and each tag for its bracketed text.                          *)

MaxChunkLen == 3   \* characters in one 'data' chunk
MaxChunks == 2     \* 'data' events played

TIMESTAMP == "[timestamp]"
Tags == {"[Backend]", "[Backend Error]", "[Frontend]", "[Frontend Error]"}
WhiteSpace == {" ", "\n"}
Chars == {"a"} \cup WhiteSpace

\* the chunks a pipe can deliver: a 'data' event carries at least one byte
Chunks == UNION {[1..n -> Chars] : n \in 1..MaxChunkLen}

RECURSIVE trimStart(_)
trimStart(s) ==
    IF s # <<>> /\ Head(s) \in WhiteSpace THEN trimStart(Tail(s)) ELSE s

RECURSIVE trimEnd(_)
trimEnd(s) ==
    IF s # <<>> /\ s[Len(s)] \in WhiteSpace THEN trimEnd(SubSeq(s, 1, Len(s) - 1)) ELSE s

\* String.prototype.trim: white space and line terminators at both ends go,
\* those inside stay
trim(s) == trimEnd(trimStart(s))

\* const logMessage of log(message)
logMessage(message) == <<TIMESTAMP, " ">> \o message \o <<"\n">>

\* the template literal of a 'data' listener
DataMessage(tag, data) == <<tag, " ">> \o trim(data)

\* a 'data' event of a child's stdout or stderr: one log() call per chunk
ChildData(tag, data) ==
    /\ appLog.chunks < MaxChunks
    /\ appLog' = [file   |-> appLog.file \o logMessage(DataMessage(tag, data)),
                  chunks |-> appLog.chunks + 1]
    /\ UNCHANGED <<mainVars, wait, ui>>

\* the host while the text of the log or the UI is played on its own
HostIdle ==
    /\ phase = "running"
    /\ isDev = FALSE
    /\ mainWindow = TRUE
    /\ backendProcess = 0
    /\ frontendProcess = 0
    /\ procs = <<>>
    /\ extUp = [s \in Services |-> FALSE]
    /\ tasks = [t \in TaskIds |-> IdleTask]
    /\ ollamaReady = "none"
    /\ notifications = 0
    /\ wait = IdleWait
    /\ status = IdleStatus
    /\ log = {}

InitLog ==
    /\ HostIdle
    /\ appLog = NoAppLog
    /\ ui = NoUi

NextLog == \E tag \in Tags, data \in Chunks : ChildData(tag, data)

SpecLog == InitLog /\ [][NextLog]_vars

----------------------------------------------------------------------------
(* The UI: App (part_001), DocumentPanel and ChatPanel (part_000). React    *)
(* runs one event at a time and renders before the next user event, so an   *)
(* action is one event handler or one continuation after an await. A        *)
(* request in flight is counted per kind; the server answers in any order.  *)

MaxInFlight == 2   \* requests of one kind in flight at once
MaxDocs == 1       \* documents the server lists
MaxSubmits == 2    \* chat messages the user submits

\* the state after the first render and its effects: fetchHealth() and
\* loadDocuments() have been called. input is input.trim() # ''; health is
\* "null", or ollama_connected of the stored answer; lastCheck is how the
\* health check that settled last ended
MountedUi ==
    [mounted |-> TRUE,
     health |-> "null", error |-> FALSE, checks |-> 1, lastCheck |-> "none",
     documents |-> 0, loads |-> 1, deletes |-> 0,
     uploading |-> FALSE, uploadStatus |-> "null", uploads |-> 0,
     messages |-> <<>>, input |-> FALSE, loading |-> FALSE, chats |-> 0]

InitUi ==
    /\ HostIdle
    /\ appLog = NoAppLog
    /\ ui = MountedUi

HostUnchanged == UNCHANGED <<mainVars, wait, appLog>>

\* how checkHealth() can end: the answer's ollama_connected, or a throw
HealthOutcomes == {"connected", "offline", "failed"}

\* setInterval(fetchHealth, 30000) fires: fetchHealth up to its await
HealthTimer ==
    /\ ui.checks < MaxInFlight
    /\ ui' = [ui EXCEPT !.checks = @ + 1]
    /\ HostUnchanged

\* fetchHealth after its await: try stores the answer and clears error,
\* catch sets error only
fetchHealthSettled(u, outcome) ==
    IF outcome = "failed"
    THEN [u EXCEPT !.error = TRUE]
    ELSE [u EXCEPT !.health = outcome, !.error = FALSE]

HealthSettled(outcome) ==
    /\ ui.checks > 0
    /\ ui' = [fetchHealthSettled(ui, outcome) EXCEPT !.checks = @ - 1,
                                                     !.lastCheck = outcome]
    /\ HostUnchanged

\* loadDocuments after its await: docs is the length of the list the server
\* sent, -1 a throw (logged to the console only)
DocsLoaded(docs) ==
    /\ ui.loads > 0
    /\ ui' = [ui EXCEPT !.loads = @ - 1,
                        !.documents = IF docs < 0 THEN @ ELSE docs]
    /\ HostUnchanged

\* handleDrop or handleFileSelect with a file: handleUpload up to its await.
\* The drop zone and the file input stay active while an upload runs
HandleUpload ==
    /\ ui.uploads < MaxInFlight
    /\ ui' = [ui EXCEPT !.uploading = TRUE, !.uploadStatus = "null", !.uploads = @ + 1]
    /\ HostUnchanged

\* handleUpload after its await: try (status, loadDocuments()) or catch, then
\* finally
UploadSettled(ok) ==
    /\ ui.uploads > 0
    /\ ok => ui.loads < MaxInFlight
    /\ ui' = [ui EXCEPT !.uploadStatus = IF ok THEN "success" ELSE "error",
                        !.loads = IF ok THEN @ + 1 ELSE @,
                        !.uploading = FALSE,
                        !.uploads = @ - 1]
    /\ HostUnchanged

\* handleDelete, confirmed, up to its await
HandleDelete ==
    /\ ui.documents > 0
    /\ ui.deletes < MaxInFlight
    /\ ui' = [ui EXCEPT !.deletes = @ + 1]
    /\ HostUnchanged

\* handleDelete after its await: loadDocuments(), or an alert
DeleteSettled(ok) ==
    /\ ui.deletes > 0
    /\ ok => ui.loads < MaxInFlight
    /\ ui' = [ui EXCEPT !.deletes = @ - 1, !.loads = IF ok THEN @ + 1 ELSE @]
    /\ HostUnchanged

\* const canChat of ChatPanel, from the props App passes
canChat(u) == u.documents > 0 /\ u.health = "connected"

\* the text input of ChatPanel is not disabled
ChatInputEnabled(u) == ~(~canChat(u) \/ u.loading)

\* onChange of the text input: the user edits the text
InputChange(nonEmpty) ==
    /\ ChatInputEnabled(ui)
    /\ ui' = [ui EXCEPT !.input = nonEmpty]
    /\ HostUnchanged

Users(messages) == {k \in 1..Len(messages) : messages[k] = "user"}

\* onSubmit of the form (Enter in the text input, or the button): handleSubmit
\* up to its await
HandleSubmit ==
    /\ ChatInputEnabled(ui)
    /\ Cardinality(Users(ui.messages)) < MaxSubmits
    /\ ui' = IF ~ui.input \/ ui.loading
             THEN ui
             ELSE [ui EXCEPT !.input = FALSE,
                             !.messages = Append(@, "user"),
                             !.loading = TRUE,
                             !.chats = @ + 1]
    /\ HostUnchanged

\* faulty variant: finally leaves loading set
handleSubmitSettled_staysLoading(u, ok) ==
    [u EXCEPT !.messages = Append(@, IF ok THEN "assistant" ELSE "error"),
              !.chats = @ - 1]

\* handleSubmit after its await: the assistant entry of try or the error
\* entry of catch, then finally
handleSubmitSettled(u, ok) ==
    [u EXCEPT !.messages = Append(@, IF ok THEN "assistant" ELSE "error"),
              !.loading = FALSE,
              !.chats = @ - 1]

ChatSettled(ok) ==
    /\ ui.chats > 0
    /\ ui' = handleSubmitSettled(ui, ok)
    /\ HostUnchanged

NextUi ==
    \/ HealthTimer
    \/ \E outcome \in HealthOutcomes : HealthSettled(outcome)
    \/ \E docs \in -1..MaxDocs : DocsLoaded(docs)
    \/ HandleUpload
    \/ \E ok \in BOOLEAN : UploadSettled(ok)
    \/ HandleDelete
    \/ \E ok \in BOOLEAN : DeleteSettled(ok)
    \/ \E nonEmpty \in BOOLEAN : InputChange(nonEmpty)
    \/ HandleSubmit
    \/ \E ok \in BOOLEAN : ChatSettled(ok)

SpecUi == InitUi /\ [][NextUi]_vars

----------------------------------------------------------------------------
(* Properties *)

Min(S) == CHOOSE x \in S : \A y \in S : x <= y

\* the requests of the stand-alone call that the network lets succeed
FirstOk == {k \in 1..wait.max : checkService(wait.oracle[k].events) = "true"}

\* C1 (stated as claimed; the code violates it): at most one backend child
\* spawned by the host is alive at any time.
C1_AtMostOneBackendAlive == Cardinality(AliveOf(BACKEND)) <= 1

\* C2 (stated as claimed; the code violates it): when a restart request that
\* killed a stored backend child spawns the new backend, the killed child is
\* no longer alive (its exit has happened).
C2_RestartSpawnsAfterExit ==
    [][\A t \in RestartIds :
         (tasks[t].killed # 0 /\ tasks[t].spawned = 0 /\ tasks'[t].spawned # 0)
            => procs[tasks[t].killed].st \notin Alive]_vars

\* C3 (stated as claimed; the code violates it): a restart request that
\* killed the stored backend child and replied success has spawned a new
\* backend child.
C3_RestartSuccessRespawned ==
    \A t \in RestartIds :
        (tasks[t].pc = "done" /\ tasks[t].result = "true" /\ tasks[t].killed # 0)
            => tasks[t].spawned # 0

\* C4: waitForService issues at most maxAttempts probes and none after a
\* success; it returns true iff one of the first maxAttempts probes succeeds,
\* after exactly k probes when the k-th is the first success and after
\* exactly maxAttempts probes when it returns false.
C4_WaitForServiceBounded ==
    /\ wait.requests <= wait.max
    /\ \A k \in 1..Len(wait.outcomes) :
          wait.outcomes[k] = "true" => (k = wait.requests /\ wait.pc = "returned")
    /\ wait.pc = "returned" =>
          /\ wait.loop.ret = (IF FirstOk # {} THEN "true" ELSE "false")
          /\ wait.requests = (IF FirstOk # {} THEN Min(FirstOk) ELSE wait.max)
          /\ Len(wait.outcomes) = wait.requests

\* C4 witness: a call with maxAttempts 3 returned true on its second probe
C4_Witness ==
    /\ wait.pc = "returned"
    /\ wait.max = 3
    /\ wait.loop.ret = "true"
    /\ wait.requests = 2
    /\ wait.outcomes = <<"false", "true">>

\* the request the stand-alone call is awaiting
CurScript == wait.oracle[wait.requests]

\* C5 as amended: once the request of a probe has emitted an event the
\* promise holds a boolean, true exactly when that first event is the
\* response, and later events of the request do not change it; so every probe
\* completes with one boolean, false for refusal, error and timeout, the
\* timeout of an established connection included.
C5_ProbeResolvesOnFirstEvent ==
    (wait.pc = "probe" /\ wait.pos >= 1) =>
        wait.value = (IF Head(CurScript.events) = "response" THEN "true" ELSE "false")

\* C5 witness: a probe whose connection was established times out and
\* completes with false
C5_Witness ==
    /\ wait.pc = "probe"
    /\ CurScript.connected
    /\ CurScript.events = <<"timeout", "error">>
    /\ wait.pos = 2
    /\ wait.value = "false"

\* C5 (stated as claimed; the code violates it): a completed probe returned
\* true whenever its connection was established, and false otherwise.
C5_ConnectedMeansTrue ==
    (wait.pc = "probe" /\ wait.pos = Len(CurScript.events)) =>
        (wait.value = "true" <=> CurScript.connected)

\* C6 (stated as claimed; the code violates it): when before-quit has run,
\* every backend or asset-server child that is alive has been sent the
\* termination signal.
C6_QuitSignalsEveryLiveChild ==
    [][(phase = "running" /\ phase' = "quitting") =>
         \A p \in DOMAIN procs' :
             (procs'[p].svc \in {BACKEND, FRONTEND} /\ procs'[p].st \in Alive)
                 => procs'[p].st = "signalled"]_vars

\* C7 (stated as claimed; the code violates it): the host process closes only
\* when every child it asked to terminate has reported its exit.
C7_CloseWaitsForExit ==
    phase = "closed" =>
        \A p \in ProcIds : procs[p].svc \in {BACKEND, FRONTEND} => procs[p].st # "signalled"

\* C8: the runtime process is never sent a termination signal.
C8_RuntimeNeverSignalled ==
    \A p \in ProcIds : procs[p].svc = OLLAMA => procs[p].st # "signalled"

\* C8 witness: the fallback-launched runtime is alive after a restart request
\* killed a backend child and before-quit has run
C8_Witness ==
    /\ phase = "quitting"
    /\ \E p \in ProcIds : procs[p].svc = OLLAMA /\ procs[p].st = "alive"
    /\ \E t \in RestartIds : tasks[t].killed # 0
    /\ \E p \in ProcIds : procs[p].svc = BACKEND /\ procs[p].st = "signalled"

\* C9 as amended: no Bridge call spawns the runtime: every runtime process
\* was spawned by the startup sequence.
C9_RuntimeSpawnedOnlyByStartup ==
    \A p \in ProcIds : procs[p].svc = OLLAMA => procs[p].by = STARTUP

\* C9 witness: a restart request was answered while the runtime was absent
\* (not running, fallback launch over and failed)
C9_Witness ==
    /\ \E t \in RestartIds : tasks[t].pc = "done"
    /\ ~extUp[OLLAMA]
    /\ ollamaReady = "false"
    /\ AliveOf(OLLAMA) = {}
    /\ Cardinality({p \in ProcIds : procs[p].svc = OLLAMA}) = 1

\* C9 (stated as claimed; the code violates it): a restart request aimed at
\* the external runtime or at an unknown service is rejected.
C9_RestartOfExternalRejected ==
    [][\A t \in RestartIds :
         (IpcRestartBackend(t, "runtime") \/ IpcRestartBackend(t, "unknown"))
            => tasks'[t].pc = "rejected"]_vars

\* the host has nothing in flight: app.whenReady has ended, no status check is
\* suspended and no 'exit' event of a backend child is pending
HostQuiet ==
    /\ HostRuns
    /\ tasks[STARTUP].pc = "ready"
    /\ \A t \in RestartIds : tasks[t].pc \in {"idle", "done"}
    /\ status.pc = "idle"
    /\ \A p \in ProcIds : procs[p].svc = BACKEND => procs[p].st # "dead"

\* C11 (stated as claimed; the code violates it): once the backend child the
\* host started has exited and the host has handled the exit, a new start of
\* the backend has been attempted and the status has been pushed, by the time
\* the host has nothing else in flight.
C11_ExitTriggersStartAndPush ==
    \A p \in ProcIds :
        (HostQuiet /\ mainWindow /\ procs[p].svc = BACKEND /\ procs[p].st = "reaped")
            => /\ \E q \in ProcIds : q > p /\ procs[q].svc = BACKEND
               /\ status.sent

\* C12 (stated as claimed; the code violates it): when the startup sequence
\* ends while the window exists, a services-status message has been sent to
\* the window.
C12_StartupOutcomesPushed ==
    [][(tasks[STARTUP].pc # "ready" /\ tasks'[STARTUP].pc = "ready" /\ mainWindow')
          => status'.sent]_vars

\* C13 (stated as claimed; the code violates it): a finished status check
\* replied with a value for every known service, and every value of the reply
\* and of the message it sent is the outcome of the probe of that service
\* during the check.
C13_ReportedEqualsProbed ==
    (status.pc = "idle" /\ status.reply # NoReply) =>
        /\ DOMAIN status.reply = Services
        /\ \A svc \in DOMAIN status.reply : status.reply[svc] = status.probed[svc]
        /\ status.pushed # NoPush =>
              \A svc \in Services : status.pushed[svc] = status.probed[svc]

\* C14: the startup sequence settles the runtime first (probe, then the
\* fallback launch), attempts the start of the backend next whatever the
\* runtime outcome was, and starts the asset server last and only in
\* development; in production no asset-server process is ever spawned.
C14_StartupOrder ==
    LET pc == tasks[STARTUP].pc IN
    /\ pc \in {"sb_probe", "sb_wait", "sf_probe", "sf_wait", "ready"} => ollamaReady # "none"
    /\ pc \in {"sf_probe", "sf_wait", "ready"} => tasks[STARTUP].result # "none"
    /\ pc \in {"sf_probe", "sf_wait"} => isDev
    /\ \A p \in ProcIds :
          /\ (procs[p].svc = BACKEND /\ procs[p].by = STARTUP) =>
                /\ ollamaReady # "none"
                /\ \A q \in ProcIds : procs[q].svc = OLLAMA => q < p
          /\ procs[p].svc = FRONTEND =>
                /\ isDev
                /\ tasks[STARTUP].result # "none"
                /\ \A q \in ProcIds : procs[q].by = STARTUP => q <= p

\* C14 witness: in development the runtime was absent and its fallback launch
\* failed, the backend was spawned all the same, and then the asset server
C14_Witness ==
    /\ isDev
    /\ tasks[STARTUP].pc = "ready"
    /\ ollamaReady = "false"
    /\ \E p, q, r \in ProcIds :
          /\ p < q /\ q < r
          /\ procs[p].svc = OLLAMA
          /\ procs[q].svc = BACKEND /\ procs[q].by = STARTUP
          /\ procs[r].svc = FRONTEND

\* the error boxes app.whenReady has shown for the backend
BackendNotifications == notifications - (IF ollamaReady = "false" THEN 1 ELSE 0)

\* the backend executable could not be run when app.whenReady spawned it, and
\* nothing else answers on the backend port
BackendSpawnFailed ==
    /\ tasks[STARTUP].spawned # 0
    /\ procs[tasks[STARTUP].spawned].st = "failed"
    /\ ~extUp[BACKEND]
    /\ AliveOf(BACKEND) = {}

\* C15: when the backend executable cannot be spawned at startup (and nothing
\* else answers on its port), the failure is logged, startBackend returns
\* false, app.whenReady shows exactly one error box for it, a status check that
\* finishes afterwards reports the backend as not up, and the steps of the
\* failed attempt leave the handle and the processes of the other services
\* as they were.
C15_BackendSpawnFailure ==
    /\ [](BackendSpawnFailed =>
            /\ "Backend process error" \in log
            /\ tasks[STARTUP].pc = "sb_wait" => BackendNotifications = 0
            /\ tasks[STARTUP].pc # "sb_wait" =>
                  /\ tasks[STARTUP].result = "false"
                  /\ BackendNotifications = 1
            /\ (status.pc = "idle" /\ status.reply # NoReply) =>
                  /\ status.reply.backend = "false"
                  /\ status.pushed # NoPush => status.pushed.backend = "false")
    /\ [][(BackendSpawnFailed' /\ tasks[STARTUP].pc \in {"sb_probe", "sb_wait"}
                               /\ tasks'[STARTUP] # tasks[STARTUP]) =>
            /\ frontendProcess' = frontendProcess
            /\ ollamaReady' = ollamaReady
            /\ \A p \in ProcIds : procs'[p] = procs[p]]_vars

\* C15 witness: the runtime was there, the spawn of the backend failed, the
\* one error box was shown, and a status check made after the startup
\* sequence reported the backend as not up
C15_Witness ==
    /\ BackendSpawnFailed
    /\ tasks[STARTUP].pc = "ready"
    /\ ollamaReady = "true"
    /\ notifications = 1
    /\ status.pc = "idle"
    /\ status.reply = [ollama |-> "true", backend |-> "false"]
    /\ status.pushed = [ollama |-> "true", backend |-> "false", frontend |-> "true"]

\* C16: a termination request (restart-backend, before-quit) for a stored
\* child that is no longer running changes no process, raises no error in the
\* host, and leaves the stored handle cleared.
C16_KillOfExitedIsNoOp ==
    [][/\ \A t \in RestartIds :
            (tasks[t].pc = "idle" /\ tasks'[t].pc # "idle"
                /\ backendProcess # 0 /\ procs[backendProcess].st \notin Alive)
               => /\ procs' = procs
                  /\ backendProcess' = 0
                  /\ phase' = "running"
       /\ (phase = "running" /\ phase' = "quitting") =>
            /\ \A h \in {backendProcess, frontendProcess} \ {0} :
                  procs[h].st \notin Alive => procs'[h] = procs[h]
            /\ backendProcess' = 0
            /\ frontendProcess' = 0]_vars

\* C16 witness: a restart request asked to terminate a stored backend child
\* that was not running (it could not be spawned), and before-quit asked to
\* terminate a stored asset-server child that had ended; the handles are cleared
C16_Witness ==
    /\ phase = "quitting"
    /\ backendProcess = 0
    /\ frontendProcess = 0
    /\ \E t \in RestartIds :
          /\ tasks[t].killed # 0
          /\ procs[tasks[t].killed].st = "failed"
    /\ \E p \in ProcIds : procs[p].svc = FRONTEND /\ procs[p].st \in {"dead", "failed"}

\* C17: the UI reaches the host through exactly the four handled channels,
\* every invocation carries no argument of the UI, a restart request has the
\* same effect whatever the UI passes, and every process spawned on behalf of
\* a Bridge call is the backend.
C17_BridgeTakesNoUiInput ==
    [][/\ {c.channel : c \in UNION {ElectronAPI(arg) : arg \in BridgeArgs}} = IpcHandlers
       /\ \A arg \in BridgeArgs : \A c \in ElectronAPI(arg) : c.args = <<>>
       /\ \A t \in RestartIds : \A a, b \in BridgeArgs :
             IpcRestartBackend(t, a) => IpcRestartBackend(t, b)
       /\ \A p \in DOMAIN procs' :
             (p \notin DOMAIN procs /\ procs'[p].by \in RestartIds) => procs'[p].svc = BACKEND]_vars

\* C17 witness: a restart request of the UI made the host spawn a process,
\* the backend
C17_Witness ==
    \E t \in RestartIds :
        /\ tasks[t].spawned # 0
        /\ procs[tasks[t].spawned].svc = BACKEND
        /\ procs[tasks[t].spawned].by = t
        /\ procs[tasks[t].spawned].st = "alive"

\* the start attempts of app.whenReady, by the place it is suspended at
InCheckOllama == tasks[STARTUP].pc \in {"ollama_probe", "ollama_timer", "ollama_probe2"}
InStartBackend == tasks[STARTUP].pc \in {"sb_probe", "sb_wait"}
InStartFrontend == tasks[STARTUP].pc \in {"sf_probe", "sf_wait"}

\* the host no longer runs its tasks: the application is quitting
Quitting == phase \in {"quitting", "closed"}

\* C18: for every combination of service availability, every start attempt
\* of the startup sequence ends (unless the application quits first), with a
\* boolean for checkOllama and startBackend, after at most WaitAttempts rounds
\* of its readiness wait, and the startup sequence reaches 'App ready'.
C18_StartupTerminates ==
    /\ [](tasks[STARTUP].loop.i <= WaitAttempts)
    /\ InCheckOllama ~> (ollamaReady \in {"true", "false"} \/ Quitting)
    /\ InStartBackend ~> (tasks[STARTUP].result \in {"true", "false"} \/ Quitting)
    /\ InStartFrontend ~> (tasks[STARTUP].pc = "ready" \/ Quitting)
    /\ <>(("App ready" \in log /\ tasks[STARTUP].pc = "ready") \/ Quitting)

\* C18 witness: with no service answering and no executable to spawn, the
\* startup sequence reached 'App ready' with false for every start attempt,
\* the readiness waits having run all their rounds
C18_Witness ==
    /\ isDev
    /\ extUp = [svc \in Services |-> FALSE]
    /\ \A p \in ProcIds : procs[p].st = "failed"
    /\ Len(procs) = 3
    /\ tasks[STARTUP].pc = "ready"
    /\ ollamaReady = "false"
    /\ tasks[STARTUP].result = "false"
    /\ tasks[STARTUP].loop = [i |-> WaitAttempts, at |-> "done", ret |-> "false"]
    /\ "App ready" \in log

WaitReturnsFalse(t) ==
    /\ tasks[t].pc \in {"sb_wait", "sf_wait"}
    /\ tasks[t].loop.at # "done"
    /\ tasks'[t].loop.at = "done"
    /\ tasks'[t].loop.ret = "false"

\* C20 (stated as claimed; the code violates it): whenever the readiness wait
\* of a start attempt returns false, its caller reports the failure in the
\* same run: app.whenReady shows an error box or writes a log entry about it,
\* the restart-backend handler replies false.
C20_FalseWaitIsReported ==
    [][\A t \in TaskIds :
         WaitReturnsFalse(t) =>
            IF t = STARTUP
            THEN \/ notifications' = notifications + 1
                 \/ (log' \ log) \ {"App ready"} # {}
            ELSE tasks'[t].pc = "done" /\ tasks'[t].result = "false"]_vars

\* the children of svc that have ended
Exited(svc) == {p \in ProcIds : procs[p].svc = svc /\ procs[p].st \in {"dead", "reaped"}}

\* C21 (stated as claimed; the code violates it): once the host has nothing in
\* flight, no stored handle (backend, asset server) refers to a child that has
\* ended, and the exit of every such child has been logged.
C21_ExitClearsHandle ==
    HostQuiet =>
        /\ backendProcess \notin Exited(BACKEND)
        /\ frontendProcess \notin Exited(FRONTEND)
        /\ Exited(BACKEND) # {} => "Backend exited with code" \in log
        /\ Exited(FRONTEND) # {} => "Frontend exited with code" \in log

\* the start attempts that have returned false: checkOllama and startBackend
\* in app.whenReady, startBackend in the restart-backend requests
FailedAttempts ==
    (IF ollamaReady = "false" THEN 1 ELSE 0)
    + (IF tasks[STARTUP].result = "false" THEN 1 ELSE 0)
    + Cardinality({t \in RestartIds : tasks[t].pc = "done" /\ tasks[t].result = "false"})

\* C22 (stated as claimed; the code violates it): the number of error boxes
\* shown equals the number of start attempts of the runtime and of the
\* backend that have failed, whether app.whenReady or a restart request made
\* the attempt.
C22_OneNotificationPerFailedAttempt == notifications = FailedAttempts

\* C27 (stated as claimed; the code violates it): the 'exit' event of a
\* backend child other than the stored one does not clear the handle of a
\* stored child that is alive.
C27_ExitKeepsHandleOfLiveChild ==
    [][\A p \in ProcIds :
         (BackendExitEvent(p) /\ backendProcess \notin {0, p}
             /\ procs[backendProcess].st \in Alive)
            => backendProcess' = backendProcess]_vars

\* the process the step spawns, if it spawns one
Spawns(p) == p = Len(procs) + 1 /\ Len(procs') = p

\* C23: every spawn (runtime fallback, backend, asset server) happens in the
\* step in which the first probe of its start attempt returned false, and it
\* leaves the attempt suspended on a further probe (or timer) of that port;
\* an attempt that spawned reports success only in a step in which a probe of
\* that port returned true.
C23_SpawnBetweenProbes ==
    [][/\ \A p \in DOMAIN procs' : Spawns(p) =>
            LET new == procs'[p] IN
            CASE new.svc = OLLAMA ->
                   /\ CheckOllamaProbeGave("false") /\ ~CheckOllamaProbeGave("true")
                   /\ tasks'[STARTUP].pc = "ollama_timer"
              [] new.svc = BACKEND ->
                   /\ StartBackendProbeGave(new.by, "false")
                   /\ ~StartBackendProbeGave(new.by, "true")
                   /\ \/ tasks'[new.by].pc = "sb_wait" /\ tasks'[new.by].loop.at = "probe"
                      \/ tasks'[new.by].result = "false"
              [] new.svc = FRONTEND ->
                   /\ StartFrontendProbeGave("false") /\ ~StartFrontendProbeGave("true")
                   /\ \/ tasks'[STARTUP].pc = "sf_wait" /\ tasks'[STARTUP].loop.at = "probe"
                      \/ tasks'[STARTUP].loop.ret = "false"
       /\ (tasks[STARTUP].pc = "ollama_probe2" /\ ollamaReady' = "true") =>
             (CheckOllamaStartedGave("true") /\ ~CheckOllamaStartedGave("false"))
       /\ \A t \in TaskIds :
             (tasks[t].pc \in {"sb_wait", "sf_wait"} /\ tasks'[t].pc # tasks[t].pc
                 /\ tasks'[t].loop.ret = "true")
                => (WaitForServiceProbeGave(t, "true") /\ ~WaitForServiceProbeGave(t, "false"))]_vars

\* C23 witness: every service was absent at its first probe, was spawned, and
\* answered the probe that followed: the three start attempts of the startup
\* sequence reported success after their spawn
C23_Witness ==
    /\ tasks[STARTUP].pc = "ready"
    /\ Len(procs) = 3
    /\ \A p \in ProcIds : procs[p].by = STARTUP /\ procs[p].st = "alive"
    /\ ollamaReady = "true"
    /\ tasks[STARTUP].result = "true"
    /\ tasks[STARTUP].loop.ret = "true"
    /\ extUp = [svc \in Services |-> FALSE]

\* C24: over the whole life of the host the runtime is spawned at most once.
C24_RuntimeSpawnedAtMostOnce ==
    Cardinality({p \in ProcIds : procs[p].svc = OLLAMA}) <= 1

\* C24 witness: the runtime spawned by the fallback launch has ended, its
\* second probe failed, and a restart request was served afterwards without
\* a second launch
C24_Witness ==
    /\ ollamaReady = "false"
    /\ ~extUp[OLLAMA]
    /\ \E p \in ProcIds : procs[p].svc = OLLAMA /\ procs[p].st = "dead"
    /\ \E t \in RestartIds : tasks[t].pc = "done" /\ tasks[t].spawned # 0

\* C28: when the first probe of startBackend or startFrontend returns true
\* nothing is spawned, the stored handle stays as it was and the attempt
\* returns true; before-quit signals stored children only, and the handle of
\* a service the host never spawned is null, so a service found running is
\* not signalled at quit.
C28_FoundRunningNotSpawned ==
    /\ [][/\ \A t \in TaskIds : StartBackendProbeGave(t, "true") =>
                /\ procs' = procs
                /\ backendProcess' = backendProcess
                /\ tasks'[t].result = "true"
                /\ tasks'[t].spawned = 0
          /\ StartFrontendProbeGave("true") =>
                /\ procs' = procs
                /\ frontendProcess' = frontendProcess
                /\ tasks'[STARTUP].pc = "ready"
          /\ (phase = "running" /\ phase' = "quitting") =>
                /\ extUp' = extUp
                /\ \A p \in ProcIds :
                      procs'[p] # procs[p] => p \in {backendProcess, frontendProcess}]_vars
    /\ []((\A p \in ProcIds : procs[p].svc # BACKEND) => backendProcess = 0)
    /\ []((\A p \in ProcIds : procs[p].svc # FRONTEND) => frontendProcess = 0)

\* C28 witness: the backend and the asset server were found running by the
\* first probes of the startup sequence, nothing was spawned for them, and
\* the application has quit without signalling anything
C28_Witness ==
    /\ phase = "quitting"
    /\ isDev
    /\ extUp[BACKEND] /\ extUp[FRONTEND]
    /\ tasks[STARTUP].pc = "ready"
    /\ tasks[STARTUP].result = "true"
    /\ \A p \in ProcIds : procs[p].svc = OLLAMA
    /\ {"Backend already running", "Frontend dev server already running"} \subseteq log

\* the lines of a text: what stands before each line feed, and what is left
\* after the last one if the text does not end in a line feed
RECURSIVE Lines(_)
Lines(s) ==
    IF s = <<>> THEN <<>>
    ELSE LET n == CHOOSE i \in 1..(Len(s) + 1) :
                      /\ \A j \in 1..(i - 1) : s[j] # "\n"
                      /\ i = Len(s) + 1 \/ s[i] = "\n"
         IN  <<SubSeq(s, 1, n - 1)>> \o Lines(SubSeq(s, n + 1, Len(s)))

\* C25 (stated as claimed; the code violates it): every line of app.log that
\* comes from child output starts with the timestamp and the tag of the
\* service and stream it came from.
C25_EveryOutputLineTagged ==
    \A k \in 1..Len(Lines(appLog.file)) :
        LET line == Lines(appLog.file)[k]
        IN  /\ Len(line) >= 4
            /\ line[1] = TIMESTAMP
            /\ line[2] = " "
            /\ line[3] \in Tags
            /\ line[4] = " "

\* C26 (stated as claimed; the code violates it): the chat input is enabled
\* only if a document is loaded and the health check that settled last
\* succeeded and reported the runtime connected.
C26_ChatEnabledOnlyAfterGoodCheck ==
    ChatInputEnabled(ui) => (ui.documents > 0 /\ ui.lastCheck = "connected")

\* C29: at most one chat request is in flight and loading is set exactly
\* while it is; every entry that is not a user message directly follows a
\* user message, every user message is directly followed by one such entry,
\* except the last one while its request is in flight; and a request in
\* flight can settle.
C29_OneRequestOneAnswer ==
    /\ ui.chats <= 1
    /\ ui.loading <=> (ui.chats = 1)
    /\ \A k \in 1..Len(ui.messages) :
          IF ui.messages[k] = "user"
          THEN IF k = Len(ui.messages)
               THEN ui.chats = 1
               ELSE ui.messages[k + 1] # "user"
          ELSE k > 1 /\ ui.messages[k - 1] = "user"
    /\ (ui.messages # <<>> /\ ui.messages[Len(ui.messages)] # "user") => ui.chats = 0
    /\ ui.chats = 1 => ENABLED ChatSettled(TRUE) /\ ENABLED ChatSettled(FALSE)

\* two messages submitted, the first answered, the second failed, and the
\* panel idle again
C29_Witness ==
    /\ ui.messages = <<"user", "assistant", "user", "error">>
    /\ ~ui.loading
    /\ ui.chats = 0

\* C30 (stated as claimed; the code violates it): uploading is set exactly
\* while an upload is in flight.
C30_UploadingWhileInFlight == ui.uploading <=> (ui.uploads > 0)

====
